---- MODULE Spec2Model ----
(***************************************************************************)
(* Model of the custom encoder framework of netcap (package encoder):      *)
(* the registry bring-up InitCustomEncoders with its include/exclude        *)
(* selection, and the life of one CustomEncoder: Init, Encode under         *)
(* concurrent workers, NumRecords and Destroy.                              *)
(***************************************************************************)
EXTENDS Integers, Sequences, FiniteSets, TLC

\* ------------------------------------------------------------------ bounds

\* longest include-list / exclude-list (number of comma separated tokens)
MaxNames == 2
\* number of packet-processing workers calling Encode concurrently
NumWorkers == 2
\* number of Encode calls made in one run
MaxCalls == 3
\* number of NumRecords calls made in one run
MaxReads == 2
\* capacity of the buffered writer, counted in written items (BlockSize)
BlockSize == 2
\* capacity of the compressor's window, counted in written items
GzWindow == 1
\* number of values of one machine word of the record counter on a 32-bit
\* build (stands for 2^32): numRecords = hi * WordSize + lo
WordSize == 2

\* ------------------------------------------------------------- the catalogue

Nil == "nil"

\* customEncoderSlice as built at package level, by the names of its entries
Catalogue ==
    <<"tls", "linkFlow", "networkFlow", "transportFlow", "http", "flow", "connection">>

\* names contributed by layerEncoderSlice (e.Layer.String())
layerEncoderNames == {"IPv4"}

Range(s) == {s[i] : i \in 1..Len(s)}

customEncoderNames == Range(Catalogue)

\* package level init(): every custom encoder name and every layer encoder name
allEncoderNames == customEncoderNames \cup layerEncoderNames

\* a mutant of Known: the existence check accepts every name
KnownAlways(name) == TRUE

\* _, ok := allEncoderNames[name]
Known(name) == name \in allEncoderNames

\* tokens the include and exclude flags are made of after strings.Split
IncludeTokens == {"", "tls", "http", "IPv4", "bogus"}
ExcludeTokens == {"", "tls", "IPv4", "bogus"}

IncludeLists == UNION {[1..n -> IncludeTokens] : n \in 1..MaxNames}
ExcludeLists == UNION {[1..n -> ExcludeTokens] : n \in 1..MaxNames}

\* c.Out, the output directory
OutDir == "out"

\* ------------------------------------------------------------ CustomEncoder

\* a nil *os.File
NilFile == [dir |-> "", stem |-> "", ext |-> ""]

\* CreateCustomEncoder: name set, no writer, counter zero.  The fields
\* fileOpen, fileData, bufData, gzData, gzClosed and chanData are the state of
\* the objects the writer fields point to; written is the sequence of items
\* handed to the top of the writer chain.
CreateCustomEncoder(name) ==
    [Name |-> name,
     file |-> NilFile, bWriter |-> Nil, gWriter |-> Nil, dWriter |-> Nil,
     aWriter |-> Nil, cWriter |-> Nil, csvWriter |-> Nil,
     compress |-> FALSE, buffer |-> FALSE, csv |-> FALSE, out |-> "",
     numRecords |-> 0,
     fileOpen |-> FALSE, fileData |-> <<>>, bufData |-> <<>>,
     gzData |-> <<>>, gzClosed |-> FALSE, chanData |-> <<>>,
     written |-> <<>>]

\* CreateFile(filepath.Join(out, e.Name), ext)
CreateFile(e, out, ext) ==
    [e EXCEPT !.file = [dir |-> out, stem |-> e.Name, ext |-> ext], !.fileOpen = TRUE]

\* Init, lines 228-231
InitConfig(e, buffer, compress, csv, out) ==
    [e EXCEPT !.compress = compress, !.buffer = buffer, !.csv = csv, !.out = out]

\* a mutant of InitCSV: the csv branch does not return and the binary framer
\* and the atomic writer are built on the same chain
InitCSVWithFramer(e) ==
    LET e1 == IF e.compress THEN CreateFile(e, e.out, ".csv.gz")
                            ELSE CreateFile(e, e.out, ".csv")
        e2 == IF e.buffer
              THEN IF e.compress
                   THEN [e1 EXCEPT !.bWriter = "file", !.gWriter = "bWriter",
                                   !.csvWriter = "gWriter", !.dWriter = "gWriter"]
                   ELSE [e1 EXCEPT !.bWriter = "file", !.csvWriter = "bWriter",
                                   !.dWriter = "bWriter"]
              ELSE IF e.compress
                   THEN [e1 EXCEPT !.gWriter = "file", !.csvWriter = "gWriter",
                                   !.dWriter = "gWriter"]
                   ELSE [e1 EXCEPT !.csvWriter = "file", !.dWriter = "file"]
    IN [e2 EXCEPT !.aWriter = "dWriter"]

\* a mutant of InitCSV: with buffer and compress the compressor is put on the
\* file, past the buffered writer
InitCSVGzipOnFile(e) ==
    LET e1 == IF e.compress THEN CreateFile(e, e.out, ".csv.gz")
                            ELSE CreateFile(e, e.out, ".csv")
    IN IF e.buffer
       THEN IF e.compress
            THEN [e1 EXCEPT !.bWriter = "file", !.gWriter = "file", !.csvWriter = "gWriter"]
            ELSE [e1 EXCEPT !.bWriter = "file", !.csvWriter = "bWriter"]
       ELSE IF e.compress
            THEN [e1 EXCEPT !.gWriter = "file", !.csvWriter = "gWriter"]
            ELSE [e1 EXCEPT !.csvWriter = "file"]

\* Init, lines 233-260: the csv branch
InitCSV(e) ==
    LET e1 == IF e.compress THEN CreateFile(e, e.out, ".csv.gz")
                            ELSE CreateFile(e, e.out, ".csv")
    IN IF e.buffer
       THEN IF e.compress
            THEN [e1 EXCEPT !.bWriter = "file", !.gWriter = "bWriter", !.csvWriter = "gWriter"]
            ELSE [e1 EXCEPT !.bWriter = "file", !.csvWriter = "bWriter"]
       ELSE IF e.compress
            THEN [e1 EXCEPT !.gWriter = "file", !.csvWriter = "gWriter"]
            ELSE [e1 EXCEPT !.csvWriter = "file"]

\* a mutant of InitPanics: the conflict of writeChan with buffer or compress
\* is not checked
InitPanicsNever(buffer, compress, csv, writeChan) == FALSE

\* Init, lines 233 and 263-265: the panic on writeChan with buffer or compress
\* is reached only when the csv branch has not returned
InitPanics(buffer, compress, csv, writeChan) ==
    ~csv /\ ((writeChan /\ buffer) \/ (writeChan /\ compress))

\* a mutant of InitBinary: the file is named .ncap with or without compression
InitBinaryPlainName(e, writeChan) ==
    LET e1 == IF writeChan THEN [e EXCEPT !.cWriter = "chan"]
              ELSE CreateFile(e, e.out, ".ncap")
        e2 == IF e.buffer
              THEN IF e.compress
                   THEN [e1 EXCEPT !.bWriter = "file", !.gWriter = "bWriter", !.dWriter = "gWriter"]
                   ELSE [e1 EXCEPT !.bWriter = "file", !.dWriter = "bWriter"]
              ELSE IF e.compress
                   THEN [e1 EXCEPT !.gWriter = "file", !.dWriter = "gWriter"]
                   ELSE IF writeChan
                        THEN [e1 EXCEPT !.dWriter = "cWriter"]
                        ELSE [e1 EXCEPT !.dWriter = "file"]
    IN [e2 EXCEPT !.aWriter = "dWriter"]

\* Init, lines 267-301: channel or file, then the binary writer chain
InitBinary(e, writeChan) ==
    LET e1 == IF writeChan THEN [e EXCEPT !.cWriter = "chan"]
              ELSE IF e.compress THEN CreateFile(e, e.out, ".ncap.gz")
                                 ELSE CreateFile(e, e.out, ".ncap")
        e2 == IF e.buffer
              THEN IF e.compress
                   THEN [e1 EXCEPT !.bWriter = "file", !.gWriter = "bWriter", !.dWriter = "gWriter"]
                   ELSE [e1 EXCEPT !.bWriter = "file", !.dWriter = "bWriter"]
              ELSE IF e.compress
                   THEN [e1 EXCEPT !.gWriter = "file", !.dWriter = "gWriter"]
                   ELSE IF writeChan
                        THEN [e1 EXCEPT !.dWriter = "cWriter"]
                        ELSE [e1 EXCEPT !.dWriter = "file"]
    IN [e2 EXCEPT !.aWriter = "dWriter"]

\* CustomEncoder.Init: the encoder as Init leaves it (when it panics, with
\* only the configuration fields set)
Init(e, buffer, compress, csv, out, writeChan) ==
    LET e1 == InitConfig(e, buffer, compress, csv, out)
    IN IF csv THEN InitCSV(e1)
       ELSE IF InitPanics(buffer, compress, csv, writeChan) THEN e1
       ELSE InitBinary(e1, writeChan)

\* ---------------------------------------------------------- the writer chain

\* os.File.Write: the bytes reach the file while it is open (a write to a nil
\* or closed file returns an error and the bytes are lost)
WriteFile(e, items) ==
    IF e.file # NilFile /\ e.fileOpen THEN [e EXCEPT !.fileData = @ \o items] ELSE e

\* bufio.Writer.Write: held in the buffer; a full buffer is flushed to the file
WriteBuf(e, item) ==
    IF Len(e.bufData) + 1 > BlockSize
    THEN WriteFile([e EXCEPT !.bufData = <<item>>], e.bufData)
    ELSE [e EXCEPT !.bufData = Append(@, item)]

RECURSIVE WriteBufSeq(_, _)
WriteBufSeq(e, items) ==
    IF items = <<>> THEN e ELSE WriteBufSeq(WriteBuf(e, Head(items)), Tail(items))

\* bufio.Writer.Flush
FlushBuf(e) == WriteFile([e EXCEPT !.bufData = <<>>], e.bufData)

\* what the compressor emits goes to the writer it was built on
GzDown(e, items) ==
    IF e.gWriter = "bWriter" THEN WriteBufSeq(e, items) ELSE WriteFile(e, items)

\* gzip.Writer.Write: the item is held by the compressor; when its window is
\* full the held block is emitted to the layer below
WriteGz(e, item) ==
    IF e.gzClosed THEN e
    ELSE IF Len(e.gzData) + 1 > GzWindow
    THEN GzDown([e EXCEPT !.gzData = <<item>>], e.gzData)
    ELSE [e EXCEPT !.gzData = Append(@, item)]

\* gzip.Writer.Close: everything held is emitted
CloseGz(e) == GzDown([e EXCEPT !.gzData = <<>>, !.gzClosed = TRUE], e.gzData)

\* one Write call on the writer named target
WriteTo(e, target, item) ==
    LET e1 == [e EXCEPT !.written = Append(@, item)]
    IN CASE target = "file"    -> WriteFile(e1, <<item>>)
         [] target = "bWriter" -> WriteBuf(e1, item)
         [] target = "gWriter" -> WriteGz(e1, item)
         [] target = "cWriter" -> [e1 EXCEPT !.chanData = Append(@, item)]
         [] OTHER              -> e

\* items on the stream: the length prefix and the payload of frame id, a csv row
Prefix(id) == <<"len", id>>
Payload(id) == <<"payload", id>>
Row(id) == <<"row", id>>
HeaderId == 0

\* ------------------------------------------------------------------- state

VARIABLES
    in,                 \* strings.Split(c.IncludeEncoders, ",")
    ex,                 \* strings.Split(c.ExcludeEncoders, ",")
    cfg,                \* c.Buffer, c.Compression, c.CSV, c.WriteChan
    customEncoderSlice, \* the package variable, by encoder names
    CustomEncoders,     \* the package variable, by encoder names
    encs,               \* the CustomEncoder objects, by name
    pc,                 \* position of InitCustomEncoders
    idx,                \* index of its bring-up loop (line 160)
    fatal,              \* how the process was stopped, if it was
    wpc,                \* position of each worker inside Encode
    decoded,            \* what the handler returned to each worker
    frame,              \* the frame id of each worker's record
    ret,                \* what each worker's last Encode call returned
    lock,               \* holder of the AtomicDelimitedWriter's mutex, or 0
    calls,              \* Encode calls made
    failed,             \* frame ids whose PutProto returned an error
    rpc,                \* position of the NumRecords reader
    rword,              \* the word a torn read has loaded so far
    reads,              \* NumRecords calls made
    lastRead,           \* the value the last NumRecords call returned
    dpc,                \* number of steps of Destroy performed
    destroyLog          \* the steps Destroy has performed, in order

regVars == <<in, ex, cfg, customEncoderSlice, CustomEncoders, pc, idx>>
encVars == <<wpc, decoded, frame, ret, lock, calls, failed>>
readVars == <<rpc, rword, reads, lastRead>>
destroyVars == <<dpc, destroyLog>>
vars == <<regVars, encs, fatal, encVars, readVars, destroyVars>>

Workers == 1..NumWorkers

NoFatal == [kind |-> "none", what |-> ""]

\* invalidEncoder(name): report the unknown encoder name and stop the process
invalidEncoder(name) == [kind |-> "invalidEncoder", what |-> name]

\* panic(...)
Panic(what) == [kind |-> "panic", what |-> what]

Configs == [Buffer : BOOLEAN, Compression : BOOLEAN, CSV : BOOLEAN, WriteChan : BOOLEAN]

\* no word loaded
NoWord == [which |-> Nil, val |-> 0]

\* the state every run starts from, for the given flags
StartWith(i, x, c) ==
    /\ in = i /\ ex = x /\ cfg = c
    /\ customEncoderSlice = Catalogue
    /\ CustomEncoders = <<>>
    /\ encs = [n \in customEncoderNames |-> CreateCustomEncoder(n)]
    /\ pc = "include" /\ idx = 1
    /\ fatal = NoFatal
    /\ wpc = [w \in Workers |-> "idle"]
    /\ decoded = [w \in Workers |-> Nil]
    /\ frame = [w \in Workers |-> 0]
    /\ ret = [w \in Workers |-> Nil]
    /\ lock = 0 /\ calls = 0 /\ failed = {}
    /\ rpc = "idle" /\ rword = NoWord /\ reads = 0 /\ lastRead = 0
    /\ dpc = 0 /\ destroyLog = <<>>

\* ------------------------------------------------- InitCustomEncoders: selection

\* lines 115-126: the first include name that is not empty and does not exist
RECURSIVE FirstUnknown(_)
FirstUnknown(names) ==
    IF names = <<>> THEN Nil
    ELSE IF Head(names) # "" /\ ~Known(Head(names)) THEN Head(names)
    ELSE FirstUnknown(Tail(names))

\* lines 115-126: inMap, the non-empty include names
InMap(names) == {names[i] : i \in {j \in 1..Len(names) : names[j] # ""}}

\* lines 129-133: the entries named in inMap, in the order of the slice
RECURSIVE Selection(_, _)
Selection(slice, inMap) ==
    IF slice = <<>> THEN <<>>
    ELSE IF Head(slice) \in inMap THEN <<Head(slice)>> \o Selection(Tail(slice), inMap)
    ELSE Selection(Tail(slice), inMap)

\* a mutant of IncludeActive: the first item is not looked at
IncludeActiveNonEmptyList(names) == Len(names) > 0

\* line 112: there are includes and the first item is not an empty string
IncludeActive(names) == Len(names) > 0 /\ names[1] # ""

\* a mutant of RemoveNamed: the slice is rebuilt from [:i] and [i:], the
\* named entry stays
RemoveNamedOffByOne(slice, name) == slice

\* lines 149-155: remove the first entry with that name, if there is one
RemoveNamed(slice, name) ==
    IF \E i \in 1..Len(slice) : slice[i] = name
    THEN LET i == CHOOSE j \in 1..Len(slice) :
                     slice[j] = name /\ \A k \in 1..(j - 1) : slice[k] # name
         IN SubSeq(slice, 1, i - 1) \o SubSeq(slice, i + 1, Len(slice))
    ELSE slice

\* lines 140-157: the exclude loop; bad is the name invalidEncoder stopped at
RECURSIVE ExcludeLoop(_, _)
ExcludeLoop(slice, names) ==
    IF names = <<>> THEN [slice |-> slice, bad |-> Nil]
    ELSE IF Head(names) = "" THEN ExcludeLoop(slice, Tail(names))
    ELSE IF ~Known(Head(names)) THEN [slice |-> slice, bad |-> Head(names)]
    ELSE ExcludeLoop(RemoveNamed(slice, Head(names)), Tail(names))

\* lines 111-137
IncludeFilter ==
    /\ pc = "include" /\ fatal = NoFatal
    /\ IF IncludeActive(in)
       THEN IF FirstUnknown(in) # Nil
            THEN /\ fatal' = invalidEncoder(FirstUnknown(in))
                 /\ pc' = "exit"
                 /\ UNCHANGED customEncoderSlice
            ELSE /\ customEncoderSlice' = Selection(customEncoderSlice, InMap(in))
                 /\ pc' = "exclude"
                 /\ UNCHANGED fatal
       ELSE /\ pc' = "exclude"
            /\ UNCHANGED <<customEncoderSlice, fatal>>
    /\ UNCHANGED <<in, ex, cfg, CustomEncoders, idx, encs, encVars, readVars, destroyVars>>

\* lines 139-157
ExcludeFilter ==
    /\ pc = "exclude" /\ fatal = NoFatal
    /\ LET r == ExcludeLoop(customEncoderSlice, ex)
       IN /\ customEncoderSlice' = r.slice
          /\ IF r.bad # Nil
             THEN fatal' = invalidEncoder(r.bad) /\ pc' = "exit"
             ELSE pc' = "Init" /\ UNCHANGED fatal
    /\ UNCHANGED <<in, ex, cfg, CustomEncoders, idx, encs, encVars, readVars, destroyVars>>

\* ------------------------------------------------- InitCustomEncoders: bring-up

\* the encoder the bring-up loop is at
Cur == customEncoderSlice[idx]

HookResults == {"absent", "ok", "err"}

\* a mutant of CallInit: the encoder is appended to CustomEncoders at the top
\* of the loop body, before its postinit hook and its header
CallInitAndAppend ==
    /\ pc = "Init" /\ fatal = NoFatal /\ idx <= Len(customEncoderSlice)
    /\ encs' = [encs EXCEPT ![Cur] =
                   Init(@, cfg.Buffer, cfg.Compression, cfg.CSV, OutDir, cfg.WriteChan)]
    /\ CustomEncoders' = Append(CustomEncoders, Cur)
    /\ IF InitPanics(cfg.Buffer, cfg.Compression, cfg.CSV, cfg.WriteChan)
       THEN fatal' = Panic("Init") /\ pc' = "exit"
       ELSE pc' = "postinit" /\ UNCHANGED fatal
    /\ UNCHANGED <<in, ex, cfg, customEncoderSlice, idx,
                   encVars, readVars, destroyVars>>

\* line 163: e.Init(c.Buffer, c.Compression, c.CSV, c.Out, c.WriteChan)
CallInit ==
    /\ pc = "Init" /\ fatal = NoFatal /\ idx <= Len(customEncoderSlice)
    /\ encs' = [encs EXCEPT ![Cur] =
                   Init(@, cfg.Buffer, cfg.Compression, cfg.CSV, OutDir, cfg.WriteChan)]
    /\ IF InitPanics(cfg.Buffer, cfg.Compression, cfg.CSV, cfg.WriteChan)
       THEN fatal' = Panic("Init") /\ pc' = "exit"
       ELSE pc' = "postinit" /\ UNCHANGED fatal
    /\ UNCHANGED <<in, ex, cfg, customEncoderSlice, CustomEncoders, idx,
                   encVars, readVars, destroyVars>>

\* lines 165-171: the postinit hook, if set; its error is a panic
PostInit ==
    /\ pc = "postinit" /\ fatal = NoFatal
    /\ \E hook \in HookResults :
          IF hook = "err"
          THEN fatal' = Panic("postinit") /\ pc' = "exit"
          ELSE pc' = "header" /\ UNCHANGED fatal
    /\ UNCHANGED <<in, ex, cfg, customEncoderSlice, CustomEncoders, idx, encs,
                   encVars, readVars, destroyVars>>

\* a mutant of WriteHeader: the loop goes on to the append without writing
WriteHeaderSkipped ==
    /\ pc = "header" /\ fatal = NoFatal
    /\ pc' = "append"
    /\ UNCHANGED <<in, ex, cfg, customEncoderSlice, CustomEncoders, idx, encs, fatal,
                   encVars, readVars, destroyVars>>

\* lines 173-185: the csv header row, or the binary header frame through the
\* atomic writer; a write error is a panic
WriteHeader ==
    /\ pc = "header" /\ fatal = NoFatal
    /\ \/ /\ fatal' = Panic("header") /\ pc' = "exit"
          /\ UNCHANGED encs
       \/ /\ pc' = "append" /\ UNCHANGED fatal
          /\ LET e == encs[Cur]
             IN encs' = [encs EXCEPT ![Cur] =
                   IF e.csv THEN WriteTo(e, e.csvWriter, Row(HeaderId))
                   ELSE WriteTo(WriteTo(e, e.dWriter, Prefix(HeaderId)),
                                e.dWriter, Payload(HeaderId))]
    /\ UNCHANGED <<in, ex, cfg, customEncoderSlice, CustomEncoders, idx,
                   encVars, readVars, destroyVars>>

\* lines 187-188: append to the CustomEncoders slice, next loop iteration
AppendEncoder ==
    /\ pc = "append" /\ fatal = NoFatal
    /\ CustomEncoders' = Append(CustomEncoders, Cur)
    /\ idx' = idx + 1
    /\ pc' = "Init"
    /\ UNCHANGED <<in, ex, cfg, customEncoderSlice, encs, fatal,
                   encVars, readVars, destroyVars>>

\* line 190: the loop is over, the count is reported
Report ==
    /\ pc = "Init" /\ fatal = NoFatal /\ idx > Len(customEncoderSlice)
    /\ pc' = "done"
    /\ UNCHANGED <<in, ex, cfg, customEncoderSlice, CustomEncoders, idx, encs, fatal,
                   encVars, readVars, destroyVars>>

\* InitCustomEncoders, every step of it
InitCustomEncoders ==
    \/ IncludeFilter
    \/ ExcludeFilter
    \/ CallInit
    \/ PostInit
    \/ WriteHeader
    \/ AppendEncoder
    \/ Report

\* ------------------------------------------------------------------ Encode

\* the encoder the workers feed: the first one of CustomEncoders
Active == CustomEncoders[1]

\* the pipeline runs once InitCustomEncoders has returned with an encoder,
\* and until Destroy is called
Running == pc = "done" /\ fatal = NoFatal /\ Len(CustomEncoders) >= 1

\* a mutant of HasRecord: the result of the handler is not looked at
HasRecordAlways(d) == TRUE

\* line 211: decoded != nil
HasRecord(d) == d # Nil

\* a mutant of AddInt64: the new value is not stored
AddInt64Lost(n, delta) == n

\* line 214: atomic.AddInt64(&e.numRecords, 1), one indivisible step
AddInt64(n, delta) == n + delta

\* a mutant of EncodeWriter: Encode writes through the plain delimited writer
EncodeWriterPlain == "dWriter"

\* line 217: Encode writes through e.aWriter
EncodeWriter == "aWriter"

\* the writer field Encode calls PutProto on
EncodeWriterField(e) == IF EncodeWriter = "aWriter" THEN e.aWriter ELSE e.dWriter

\* AtomicDelimitedWriter.PutProto holds the writer's mutex from before the
\* record is serialized until the payload is written
HoldsMutex == EncodeWriter = "aWriter"

\* line 210: decoded := e.Handler(p)
CallHandler(w) ==
    /\ Running /\ dpc = 0 /\ wpc[w] = "idle" /\ calls < MaxCalls
    /\ calls' = calls + 1
    /\ frame' = [frame EXCEPT ![w] = calls + 1]
    /\ \E d \in {Nil, "record"} : decoded' = [decoded EXCEPT ![w] = d]
    /\ ret' = [ret EXCEPT ![w] = Nil]
    /\ wpc' = [wpc EXCEPT ![w] = "decoded"]
    /\ UNCHANGED <<regVars, encs, fatal, lock, failed, readVars, destroyVars>>

\* lines 211 and 222: nothing decoded, return nil
EncodeNothing(w) ==
    /\ fatal = NoFatal /\ wpc[w] = "decoded" /\ ~HasRecord(decoded[w])
    /\ ret' = [ret EXCEPT ![w] = "ok"]
    /\ wpc' = [wpc EXCEPT ![w] = "idle"]
    /\ decoded' = [decoded EXCEPT ![w] = Nil]
    /\ frame' = [frame EXCEPT ![w] = 0]
    /\ UNCHANGED <<regVars, encs, fatal, lock, calls, failed, readVars, destroyVars>>

\* a mutant of EncodeCount: the write is started with the counter untouched
EncodeWithoutCount(w) ==
    /\ fatal = NoFatal /\ wpc[w] = "decoded" /\ HasRecord(decoded[w])
    /\ wpc' = [wpc EXCEPT ![w] = "put"]
    /\ UNCHANGED <<regVars, encs, fatal, decoded, frame, ret, lock, calls, failed,
                   readVars, destroyVars>>

\* lines 211-214: a record was decoded, increase the counter
EncodeCount(w) ==
    /\ fatal = NoFatal /\ wpc[w] = "decoded" /\ HasRecord(decoded[w])
    /\ encs' = [encs EXCEPT ![Active].numRecords = AddInt64(@, 1)]
    /\ wpc' = [wpc EXCEPT ![w] = "put"]
    /\ UNCHANGED <<regVars, fatal, decoded, frame, ret, lock, calls, failed,
                   readVars, destroyVars>>

\* line 217, entering PutProto: a nil writer is a nil pointer dereference,
\* which stops the process; otherwise the writer's mutex is taken
PutProtoEnter(w) ==
    /\ fatal = NoFatal /\ wpc[w] = "put"
    /\ IF EncodeWriterField(encs[Active]) = Nil
       THEN /\ fatal' = Panic("nil writer")
            /\ wpc' = [wpc EXCEPT ![w] = "panicked"]
            /\ UNCHANGED lock
       ELSE /\ HoldsMutex => lock = 0
            /\ lock' = IF HoldsMutex THEN w ELSE lock
            /\ wpc' = [wpc EXCEPT ![w] = "prefix"]
            /\ UNCHANGED fatal
    /\ UNCHANGED <<regVars, encs, decoded, frame, ret, calls, failed,
                   readVars, destroyVars>>

\* a mutant of EncodeReturns: the error of the write is dropped
EncodeReturnsNil(err) == "ok"

\* lines 217-222: err := e.aWriter.PutProto(decoded); a non-nil err is
\* returned as it is, otherwise nil
EncodeReturns(err) == IF err # "ok" THEN err ELSE "ok"

\* PutProto returns: the mutex is released, Encode returns what PutProto did
PutProtoReturn(w, result) ==
    /\ lock' = IF lock = w THEN 0 ELSE lock
    /\ ret' = [ret EXCEPT ![w] = EncodeReturns(result)]
    /\ wpc' = [wpc EXCEPT ![w] = "idle"]
    /\ failed' = IF result = "err" THEN failed \cup {frame[w]} ELSE failed
    /\ decoded' = [decoded EXCEPT ![w] = Nil]
    /\ frame' = [frame EXCEPT ![w] = 0]

\* delimited.Writer.PutProto: serialize the record and write its length
\* prefix; either can fail, and then nothing of the frame was written
PutPrefix(w) ==
    /\ fatal = NoFatal /\ wpc[w] = "prefix"
    /\ \/ /\ encs' = [encs EXCEPT ![Active] = WriteTo(@, @.dWriter, Prefix(frame[w]))]
          /\ wpc' = [wpc EXCEPT ![w] = "payload"]
          /\ UNCHANGED <<lock, ret, failed, decoded, frame>>
       \/ /\ PutProtoReturn(w, "err")
          /\ UNCHANGED encs
    /\ UNCHANGED <<regVars, fatal, calls, readVars, destroyVars>>

\* delimited.Writer.Put: write the payload; it can fail, and then the prefix
\* stays on the stream without its payload
PutPayload(w) ==
    /\ fatal = NoFatal /\ wpc[w] = "payload"
    /\ \/ /\ encs' = [encs EXCEPT ![Active] = WriteTo(@, @.dWriter, Payload(frame[w]))]
          /\ PutProtoReturn(w, "ok")
       \/ /\ PutProtoReturn(w, "err")
          /\ UNCHANGED encs
    /\ UNCHANGED <<regVars, fatal, calls, readVars, destroyVars>>

\* CustomEncoder.Encode, every step of it
Encode(w) ==
    \/ CallHandler(w)
    \/ EncodeNothing(w)
    \/ EncodeCount(w)
    \/ PutProtoEnter(w)
    \/ PutPrefix(w)
    \/ PutPayload(w)

\* -------------------------------------------------------------- NumRecords

\* the two machine words of the 64-bit counter on a 32-bit build
Hi(n) == n \div WordSize
Lo(n) == n % WordSize
WordOf(which, n) == IF which = "hi" THEN Hi(n) ELSE Lo(n)

\* lines 326-328: return e.numRecords, a plain load.  Where the load is one
\* machine instruction it returns the counter as it is.
NumRecords ==
    /\ Running /\ rpc = "idle" /\ reads < MaxReads
    /\ lastRead' = encs[Active].numRecords
    /\ reads' = reads + 1
    /\ UNCHANGED <<regVars, encs, fatal, encVars, rpc, rword, destroyVars>>

\* lines 326-328 on a 32-bit build: the plain load is two word loads, in an
\* order the compiler chooses, and atomic.AddInt64 may run between them
NumRecordsFirstWord ==
    /\ Running /\ rpc = "idle" /\ reads < MaxReads
    /\ \E which \in {"hi", "lo"} :
          rword' = [which |-> which, val |-> WordOf(which, encs[Active].numRecords)]
    /\ rpc' = "half"
    /\ UNCHANGED <<regVars, encs, fatal, encVars, reads, lastRead, destroyVars>>

NumRecordsSecondWord ==
    /\ fatal = NoFatal /\ rpc = "half"
    /\ lastRead' = IF rword.which = "hi"
                   THEN rword.val * WordSize + Lo(encs[Active].numRecords)
                   ELSE Hi(encs[Active].numRecords) * WordSize + rword.val
    /\ reads' = reads + 1
    /\ rword' = NoWord
    /\ rpc' = "idle"
    /\ UNCHANGED <<regVars, encs, fatal, encVars, destroyVars>>

\* ----------------------------------------------------------------- Destroy

\* a mutant of DestroyOrder: the buffer is flushed before the compressor
\* is closed
DestroyOrderFlushFirst == <<"deinit", "flush", "gzip", "close">>

\* a mutant of DestroyOrder: the file is closed before the layers above it
DestroyOrderCloseFirst == <<"deinit", "close", "gzip", "flush">>

\* lines 306-318: the order of the steps of Destroy
DestroyOrder == <<"deinit", "gzip", "flush", "close">>

\* CloseGzipWriters(e.gWriter): flush and close the compressor
CloseGzipWriters(e) == CloseGz(e)

\* FlushWriters(e.bWriter): flush the buffered writer
FlushWriters(e) == FlushBuf(e)

\* CloseFile(e.out, e.file, e.Name): sync and close the file
CloseFile(e) == [e EXCEPT !.fileOpen = FALSE]

\* the step of Destroy that comes next is step; Destroy is called when the
\* packet source is drained, no Encode call being in progress
DestroyAt(step) ==
    /\ Running /\ dpc < Len(DestroyOrder) /\ DestroyOrder[dpc + 1] = step
    /\ dpc = 0 => \A w \in Workers : wpc[w] = "idle"

\* lines 306-311: the deinit hook, if set; its error is a panic
DestroyDeinit ==
    /\ DestroyAt("deinit")
    /\ \E hook \in HookResults :
          /\ destroyLog' = IF hook = "absent" THEN destroyLog
                           ELSE Append(destroyLog, "deinit")
          /\ IF hook = "err" THEN fatal' = Panic("deinit") ELSE UNCHANGED fatal
    /\ dpc' = dpc + 1
    /\ UNCHANGED <<regVars, encs, encVars, readVars>>

\* lines 312-314
DestroyGzip ==
    /\ DestroyAt("gzip")
    /\ IF encs[Active].compress
       THEN /\ encs' = [encs EXCEPT ![Active] = CloseGzipWriters(@)]
            /\ destroyLog' = Append(destroyLog, "gzip")
       ELSE UNCHANGED <<encs, destroyLog>>
    /\ dpc' = dpc + 1
    /\ UNCHANGED <<regVars, fatal, encVars, readVars>>

\* lines 315-317
DestroyFlush ==
    /\ DestroyAt("flush")
    /\ IF encs[Active].buffer
       THEN /\ encs' = [encs EXCEPT ![Active] = FlushWriters(@)]
            /\ destroyLog' = Append(destroyLog, "flush")
       ELSE UNCHANGED <<encs, destroyLog>>
    /\ dpc' = dpc + 1
    /\ UNCHANGED <<regVars, fatal, encVars, readVars>>

\* line 318
DestroyClose ==
    /\ DestroyAt("close")
    /\ encs' = [encs EXCEPT ![Active] = CloseFile(@)]
    /\ destroyLog' = Append(destroyLog, "close")
    /\ dpc' = dpc + 1
    /\ UNCHANGED <<regVars, fatal, encVars, readVars>>

\* CustomEncoder.Destroy, every step of it
Destroy ==
    \/ DestroyDeinit
    \/ DestroyGzip
    \/ DestroyFlush
    \/ DestroyClose

\* the registry: one InitCustomEncoders run for every configuration
Boot == \E i \in IncludeLists, x \in ExcludeLists, c \in Configs : StartWith(i, x, c)

Next == InitCustomEncoders

Spec == Boot /\ [][Next]_vars

\* one encoder: InitCustomEncoders selects the first catalogue entry, for every
\* configuration; then workers call Encode, and Destroy is called
BootEnc == \E c \in Configs : StartWith(<<Catalogue[1]>>, <<"">>, c)

NextEnc ==
    \/ InitCustomEncoders
    \/ \E w \in Workers : Encode(w)
    \/ Destroy

SpecEnc == BootEnc /\ [][NextEnc]_vars

\* one encoder, with NumRecords read while the workers call Encode
NextRead ==
    \/ InitCustomEncoders
    \/ \E w \in Workers : Encode(w)
    \/ NumRecords
    \/ NumRecordsFirstWord
    \/ NumRecordsSecondWord

SpecRead == BootEnc /\ [][NextRead]_vars

\* ------------------------------------------------------------------ claims

\* the names of a list of a flag that was set; none for the unset flag
NamesOf(list) == {list[i] : i \in {j \in 1..Len(list) : list[j] # ""}}

\* a flag made only of existing names, or not set at all
OnlyKnownNames(list) ==
    \/ list = <<"">>
    \/ \A i \in 1..Len(list) : list[i] \in customEncoderNames \cup layerEncoderNames

\* the catalogue entries an include-list and an exclude-list ask for
Wanted(i, x) ==
    LET keep(n) == (i = <<"">> \/ n \in NamesOf(i)) /\ n \notin NamesOf(x)
    IN SelectSeq(Catalogue, keep)

SelectionMade == pc \in {"Init", "postinit", "header", "append", "done"}

\* C1: for include- and exclude-lists made only of known names, the selection
\* InitCustomEncoders makes is the catalogue, in catalogue order, restricted
\* to the included names (all of it when there is no include-list) without the
\* excluded names, and when it returns CustomEncoders is that list.
C1_ActiveList ==
    (SelectionMade /\ OnlyKnownNames(in) /\ OnlyKnownNames(ex)) =>
        /\ customEncoderSlice = Wanted(in, ex)
        /\ pc = "done" => CustomEncoders = Wanted(in, ex)

C1_Witness ==
    /\ pc = "done"
    /\ in = <<"http", "tls">> /\ ex = <<"IPv4", "tls">>
    /\ CustomEncoders = <<"http">>

\* no encoder has been touched: Init was called on none
NoneInitialised == \A n \in customEncoderNames : encs[n] = CreateCustomEncoder(n)

NamedEntries == NamesOf(in) \cup NamesOf(ex)

\* C2 as stated: with a non-empty include-list, a named entry that is not in
\* the catalogue of custom encoders stops InitCustomEncoders with the
\* unknown-encoder error before any Init and any append.
C2_Original ==
    (in # <<"">> /\ NamedEntries \ customEncoderNames # {} /\ pc # "include" /\ pc # "exclude") =>
        /\ pc = "exit" /\ fatal.kind = "invalidEncoder"
        /\ NoneInitialised /\ CustomEncoders = <<>>

\* the names InitCustomEncoders checks and finds in neither name collection
UnknownNamed ==
    ((IF in[1] # "" THEN NamesOf(in) ELSE {}) \cup NamesOf(ex))
        \ (customEncoderNames \cup layerEncoderNames)

\* C2, amended: a named entry of the exclude-list, or of an include-list whose
\* first entry is not empty, that is neither a custom encoder name nor a layer
\* encoder name stops InitCustomEncoders with the unknown-encoder error for
\* such a name, before Init is called on any encoder and before anything is
\* appended to CustomEncoders; the run never gets to the bring-up loop.
C2_UnknownNameIsFatal ==
    UnknownNamed # {} =>
        /\ pc \in {"include", "exclude", "exit"}
        /\ pc = "exit" => (fatal.kind = "invalidEncoder" /\ fatal.what \in UnknownNamed)
        /\ NoneInitialised /\ CustomEncoders = <<>>

C2_Witness ==
    /\ pc = "exit" /\ fatal = invalidEncoder("bogus")
    /\ in = <<"tls", "http">> /\ ex = <<"tls", "bogus">>
    /\ NoneInitialised /\ CustomEncoders = <<>>

\* the encoder under load has been brought up
Up == pc = "done" /\ Len(CustomEncoders) >= 1

\* everything on the way to the sink, oldest first: what the sink holds, then
\* what the buffered writer holds, then what the compressor holds
Stream(e) == e.chanData \o e.fileData \o e.bufData \o e.gzData

IsData(item, kind) == item[1] = kind /\ item[2] # HeaderId

Count(s, kind) == Cardinality({i \in 1..Len(s) : IsData(s[i], kind)})

\* the data frames on the stream: a payload is written after its prefix
DataFrames(e) == Count(Stream(e), "payload")

\* Encode calls past the counter whose write has not completed: in progress,
\* or stopped by a panic
Unwritten == {w \in Workers : wpc[w] \in {"put", "prefix", "payload", "panicked"}}

AllIdle == \A w \in Workers : wpc[w] = "idle"

\* C3 as stated: after any sequence of Encode calls that yielded a record the
\* counter equals the number of data frames written.
C3_Original ==
    (Up /\ AllIdle) => encs[Active].numRecords = DataFrames(encs[Active])

\* C3, amended: every Encode call whose handler returns a record increases the
\* counter by exactly 1, and writes exactly one data frame when its write
\* succeeds and none when it fails; so the counter equals the data frames
\* written plus the calls whose write returned an error or has not completed.
C3_CounterMatchesFrames ==
    Up => encs[Active].numRecords =
              DataFrames(encs[Active]) + Cardinality(failed) + Cardinality(Unwritten)

C3_Witness ==
    /\ Up /\ AllIdle /\ calls = 3
    /\ encs[Active].numRecords = 3
    /\ DataFrames(encs[Active]) = 2
    /\ Cardinality(failed) = 1

\* the header record as it lies first on the output
HeaderOf(e) == IF e.csv THEN <<Row(HeaderId)>> ELSE <<Prefix(HeaderId), Payload(HeaderId)>>

\* C4: an Encode call whose handler returned nothing returns nil at once and
\* changes neither the counter nor any writer nor anything written.
C4_NothingDecodedIsNoOp ==
    [][\A w \in Workers :
          (wpc[w] = "decoded" /\ decoded[w] = Nil /\ wpc'[w] # "decoded") =>
              /\ wpc'[w] = "idle" /\ ret'[w] = "ok"
              /\ encs' = encs /\ lock' = lock /\ failed' = failed /\ fatal' = fatal]_vars

C4_Witness ==
    /\ Up /\ AllIdle /\ calls = 2
    /\ encs[Active].numRecords = 0 /\ encs[Active].written = HeaderOf(encs[Active])
    /\ \A w \in Workers : ret[w] = "ok"

\* the frame whose payload write is in progress
InProgress == {frame[w] : w \in {v \in Workers : wpc[v] = "payload"}}

\* C5: with workers calling Encode concurrently, the stream is a sequence of
\* whole frames: every payload directly follows its own length prefix, and
\* every length prefix is directly followed by its own payload, but for a
\* prefix at the end whose frame is being written and a prefix whose payload
\* write returned an error.
C5_FramesNotInterleaved ==
    Up => LET s == Stream(encs[Active])
          IN \A i \in 1..Len(s) :
                /\ s[i][1] = "payload" => (i > 1 /\ s[i - 1] = Prefix(s[i][2]))
                /\ s[i][1] = "len" =>
                      \/ s[i][2] \in failed
                      \/ i < Len(s) /\ s[i + 1] = Payload(s[i][2])
                      \/ i = Len(s) /\ s[i][2] \in InProgress

C5_Witness ==
    /\ Up
    /\ \E w \in Workers : \E v \in Workers \ {w} :
          /\ wpc[w] = "payload" /\ lock = w
          /\ wpc[v] = "put"
          /\ DataFrames(encs[Active]) = 1

\* C6 as stated, its last part: the values NumRecords returns never decrease.
C6_ReadsNeverDecrease == [][lastRead' >= lastRead]_vars

\* no file and no writer was created
NothingCreated(e) ==
    /\ e.file = NilFile /\ e.bWriter = Nil /\ e.gWriter = Nil /\ e.dWriter = Nil
    /\ e.aWriter = Nil /\ e.cWriter = Nil /\ e.csvWriter = Nil

\* C7 as stated: for every combination of the flags, useChannel together with
\* buffer or compress makes Init fail fatally, having created no file and no
\* writer.
C7_ChannelConflictIsFatal ==
    (cfg.WriteChan /\ (cfg.Buffer \/ cfg.Compression) /\ pc \notin {"include", "exclude", "Init"}) =>
        /\ pc = "exit" /\ fatal = Panic("Init")
        /\ \A n \in customEncoderNames : NothingCreated(encs[n])

\* the data rows on the csv output
DataRows(e) == Count(Stream(e), "row")

\* C8 as stated: with csv=true every Encode call whose handler returned a
\* record has appended one row to the csv output.
C8_CsvRowPerRecord ==
    (Up /\ encs[Active].csv /\ \A w \in Workers : wpc[w] \in {"idle", "panicked"}) =>
        DataRows(encs[Active]) = encs[Active].numRecords

IsPrefixOf(s, t) == Len(s) <= Len(t) /\ s = SubSeq(t, 1, Len(s))

\* the steps Destroy performs on encoder e, with or without a deinit hook
StepsOf(e, hook) ==
    (IF hook THEN <<"deinit">> ELSE <<>>)
        \o (IF e.compress THEN <<"gzip">> ELSE <<>>)
        \o (IF e.buffer THEN <<"flush">> ELSE <<>>)
        \o <<"close">>

Destroyed == Up /\ dpc = Len(DestroyOrder) /\ fatal = NoFatal

\* C9: Destroy performs deinit hook, compressor close, buffer flush, file
\* close in this order, skipping without error the steps of layers that were
\* not configured; a deinit error is fatal and nothing is closed after it.
C9_DestroyOrder ==
    Up => LET e == encs[Active]
          IN /\ \E hook \in BOOLEAN : IsPrefixOf(destroyLog, StepsOf(e, hook))
             /\ Destroyed => \E hook \in BOOLEAN : destroyLog = StepsOf(e, hook)
             /\ fatal = Panic("deinit") =>
                   /\ destroyLog = <<"deinit">>
                   /\ ~e.gzClosed
                   /\ e.fileOpen = (e.file # NilFile)

C9_Witness ==
    /\ Destroyed
    /\ destroyLog = <<"deinit", "gzip", "flush", "close">>
    /\ encs[Active].gzClosed /\ ~encs[Active].fileOpen

\* C10: in file mode, once Destroy has returned, everything handed to the
\* writer chain is in the file, in the order it was handed over: the header
\* first and a data frame for every Encode call that returned without error;
\* the buffer and the compressor hold nothing.
C10_NothingLost ==
    (Destroyed /\ encs[Active].file # NilFile) =>
        LET e == encs[Active]
        IN /\ e.bufData = <<>> /\ e.gzData = <<>>
           /\ e.fileData = e.written
           /\ IsPrefixOf(HeaderOf(e), e.fileData)
           /\ Count(e.fileData, "payload") = e.numRecords - Cardinality(failed)

C10_Witness ==
    /\ Destroyed
    /\ encs[Active].buffer /\ encs[Active].compress /\ ~encs[Active].csv
    /\ Count(encs[Active].fileData, "payload") = 2
    /\ Cardinality(failed) = 1

\* the header records among the items s
HeaderCount(s) ==
    Cardinality({i \in 1..Len(s) : s[i][2] = HeaderId /\ s[i][1] \in {"row", "payload"}})

\* C11: for every encoder InitCustomEncoders has brought up, the header
\* record (the csv header row, or the binary header frame) is written exactly
\* once and is the first thing on the encoder's stream, before any data
\* record.
C11_HeaderFirstAndOnce ==
    \A i \in 1..Len(CustomEncoders) :
        LET e == encs[CustomEncoders[i]]
        IN /\ IsPrefixOf(HeaderOf(e), e.written)
           /\ IsPrefixOf(HeaderOf(e), Stream(e))
           /\ HeaderCount(e.written) = 1
           /\ HeaderCount(Stream(e)) = 1

C11_Witness ==
    /\ Up /\ AllIdle
    /\ ~encs[Active].csv
    /\ DataFrames(encs[Active]) = 2
    /\ IsPrefixOf(HeaderOf(encs[Active]), Stream(encs[Active]))

\* the Encode calls whose write has started: something of their frame is on
\* the stream, or PutProto is writing it, or it returned an error
Started(e) ==
    {Stream(e)[i][2] : i \in {j \in 1..Len(Stream(e)) : Stream(e)[j][2] # HeaderId}}
        \cup failed
        \cup {frame[w] : w \in {v \in Workers : wpc[v] \in {"prefix", "payload"}}}

\* C12 as stated: the counter is incremented only after the write has
\* completed, so at every moment the counter is at most the number of data
\* frames whose write has completed or returned an error.
C12_Original ==
    Up => encs[Active].numRecords <=
              DataFrames(encs[Active]) + Cardinality(failed)

\* C12, amended: for each packet that yields a record the counter increment
\* and the frame write happen in that order: the counter is incremented
\* before the write starts, so at every moment the counter is at least the
\* number of calls whose write has started, completed or returned an error,
\* and a call that has not passed the counter has written nothing.
C12_IncrementBeforeWrite ==
    Up => /\ encs[Active].numRecords >= Cardinality(Started(encs[Active]))
          /\ \A w \in Workers :
                wpc[w] = "decoded" => frame[w] \notin Started(encs[Active])

C12_Witness ==
    /\ Up /\ failed = {}
    /\ encs[Active].numRecords = 1
    /\ DataFrames(encs[Active]) = 0
    /\ Started(encs[Active]) = {}
    /\ \E w \in Workers : wpc[w] = "put"

\* C13: when the frame write fails during Encode, Encode returns that error
\* to its caller in the same step, nothing more of the frame is written (no
\* retry), the process goes on, and a further Encode call on the encoder can
\* be made.
C13_WriteErrorIsReturned ==
    [][\A w \in Workers :
          /\ (frame[w] \notin failed /\ frame[w] \in failed') =>
                /\ ret'[w] = "err" /\ wpc'[w] = "idle"
                /\ fatal' = NoFatal /\ pc' = pc
                /\ encs' = encs
                /\ lock' # w
          /\ Up' => \A i \in 1..Len(Stream(encs[Active])') :
                        Stream(encs[Active])'[i][2] \in failed' =>
                            Stream(encs[Active])'[i] = Prefix(Stream(encs[Active])'[i][2])
          /\ (failed # {} /\ wpc[w] = "idle" /\ fatal = NoFatal /\ dpc = 0
                  /\ calls < MaxCalls) => ENABLED CallHandler(w)]_vars

C13_Witness ==
    /\ Up /\ AllIdle /\ fatal = NoFatal
    /\ failed = {1} /\ calls = 2
    /\ DataFrames(encs[Active]) = 1
    /\ \E w \in Workers : ret[w] = "err"

\* C14 as stated: InitCustomEncoders does not modify the catalogue, so the
\* package variable a later run selects from is still the full build-time
\* catalogue, and CustomEncoders only ever grows by appends.
C14_CatalogueUnchanged ==
    [][/\ customEncoderSlice' = Catalogue
       /\ \/ CustomEncoders' = CustomEncoders
          \/ \E n \in customEncoderNames : CustomEncoders' = Append(CustomEncoders, n)]_vars

\* Init has returned for the encoder named n
InitDone(n) ==
    \E i \in 1..Len(customEncoderSlice) :
        /\ customEncoderSlice[i] = n
        /\ \/ SelectionMade /\ i < idx
           \/ i = idx /\ pc \in {"postinit", "header", "append"}
           \/ i <= idx /\ fatal \in {Panic("postinit"), Panic("header"), Panic("nil writer"),
                                     Panic("deinit")}

\* C15: after a successful Init exactly one of the two output forms is
\* active: with csv=true only the text writer exists, no binary framer and no
\* atomic frame writer; with csv=false only the binary framer and the atomic
\* frame writer exist, no text writer.
C15_OneOutputForm ==
    \A n \in customEncoderNames :
        InitDone(n) =>
            LET e == encs[n]
            IN /\ e.csv = cfg.CSV
               /\ IF e.csv
                  THEN e.csvWriter # Nil /\ e.dWriter = Nil /\ e.aWriter = Nil
                  ELSE e.csvWriter = Nil /\ e.dWriter # Nil /\ e.aWriter # Nil

C15_Witness ==
    /\ Up /\ InitDone(Active)
    /\ encs[Active].csv /\ cfg.WriteChan /\ cfg.Compression
    /\ encs[Active].csvWriter = "gWriter"
    /\ encs[Active].dWriter = Nil /\ encs[Active].aWriter = Nil

\* C16: an include-list that consists only of an empty string is no include
\* filter: after the include step the selection is the whole catalogue and no
\* error was raised; an unknown-encoder error can only name an entry of the
\* exclude-list; and the selection made is the catalogue without the entries
\* the exclude-list names.
C16_EmptyIncludeIsNoFilter ==
    in = <<"">> =>
        /\ pc = "exclude" => (customEncoderSlice = Catalogue /\ fatal = NoFatal)
        /\ fatal.kind = "invalidEncoder" => fatal.what \in NamesOf(ex)
        /\ SelectionMade =>
              customEncoderSlice =
                  SelectSeq(Catalogue, LAMBDA n : n \notin NamesOf(ex))

C16_Witness ==
    /\ in = <<"">> /\ ex = <<"tls">>
    /\ pc = "done" /\ fatal = NoFatal
    /\ CustomEncoders = Tail(Catalogue)

\* the extension of the output file of each mode
ExtensionOf(csv, compress) ==
    IF csv THEN (IF compress THEN ".csv.gz" ELSE ".csv")
    ELSE (IF compress THEN ".ncap.gz" ELSE ".ncap")

\* C17: every file-mode Init (csv, or no channel) creates the output file in
\* the output directory under the encoder's name, with the extension .csv,
\* .csv.gz, .ncap or .ncap.gz chosen by csv and compress alone; the buffer
\* flag does not change the name.
C17_FileName ==
    \A n \in customEncoderNames :
        (InitDone(n) /\ (cfg.CSV \/ ~cfg.WriteChan)) =>
            encs[n].file = [dir |-> OutDir, stem |-> n,
                            ext |-> ExtensionOf(cfg.CSV, cfg.Compression)]

C17_Witness ==
    /\ Up /\ InitDone(Active)
    /\ ~cfg.CSV /\ cfg.Compression /\ cfg.Buffer
    /\ encs[Active].file = [dir |-> OutDir, stem |-> Active, ext |-> ".ncap.gz"]

\* the writer on top of the chain of encoder e: the text writer or the framer
TopWriter(e) == IF e.csv THEN e.csvWriter ELSE e.dWriter

\* C18: for every accepted combination of the flags Init builds the chain
\* bottom-up: the file (the channel writer in channel mode), on it the
\* buffered writer if buffer is set, on that the compressing writer if compress
\* is set, and on top the framer or the text writer; every layer wraps the
\* layer directly below it, and a layer that is left out leaves no gap.
C18_WriterChain ==
    \A n \in customEncoderNames :
        InitDone(n) =>
            LET e == encs[n]
                sink == IF e.cWriter # Nil THEN "cWriter" ELSE "file"
            IN /\ sink = "file" => e.file # NilFile
               /\ e.bWriter = (IF cfg.Buffer THEN sink ELSE Nil)
               /\ e.gWriter = (IF cfg.Compression
                               THEN (IF cfg.Buffer THEN "bWriter" ELSE sink)
                               ELSE Nil)
               /\ TopWriter(e) = (IF cfg.Compression THEN "gWriter"
                                  ELSE IF cfg.Buffer THEN "bWriter" ELSE sink)
               /\ ~e.csv => e.aWriter = "dWriter"

C18_Witness ==
    /\ Up /\ InitDone(Active)
    /\ cfg.CSV /\ cfg.Buffer /\ cfg.Compression
    /\ encs[Active].file # NilFile
    /\ encs[Active].bWriter = "file"
    /\ encs[Active].gWriter = "bWriter"
    /\ encs[Active].csvWriter = "gWriter"

\* the bring-up loop has not reached the encoder named n
NotStarted(n) == encs[n] = CreateCustomEncoder(n)

\* C19: InitCustomEncoders brings the active encoders up one after another in
\* the order of the active list, each by the steps Init, postinit hook, header
\* write, append to CustomEncoders; so CustomEncoders is always the part of
\* the active list before the encoder the loop is at, each of its encoders has
\* been initialised and holds its header, the encoders after the current one
\* are untouched, and a failing step stops everything with the current
\* encoder and all later ones left out of CustomEncoders.
C19_BringUpOrder ==
    [][/\ pc # "exit"
       /\ pc = "Init" => pc' \in {"postinit", "exit", "done"}
       /\ pc = "postinit" => pc' \in {"header", "exit"}
       /\ pc = "header" => pc' \in {"append", "exit"}
       /\ pc = "append" =>
             /\ pc' = "Init" /\ idx' = idx + 1
             /\ CustomEncoders' = Append(CustomEncoders, customEncoderSlice[idx])
       /\ pc # "append" => (CustomEncoders' = CustomEncoders /\ idx' = idx)
       /\ SelectionMade' =>
             CustomEncoders' = SubSeq(customEncoderSlice', 1, idx' - 1)
       /\ \A n \in customEncoderNames :
             /\ n \in Range(CustomEncoders') =>
                   (InitDone(n)' /\ encs'[n].written = HeaderOf(encs'[n]))
             /\ (\E i \in 1..Len(customEncoderSlice') :
                      i > idx' /\ customEncoderSlice'[i] = n) => NotStarted(n)'
       /\ (pc' = "exit" /\ fatal'.kind = "panic") =>
             /\ CustomEncoders' = SubSeq(customEncoderSlice', 1, idx' - 1)
             /\ \A i \in idx'..Len(customEncoderSlice') :
                   customEncoderSlice'[i] \notin Range(CustomEncoders')]_vars

C19_Witness ==
    /\ pc = "exit" /\ fatal = Panic("postinit")
    /\ Len(customEncoderSlice) >= 3 /\ idx = 2
    /\ CustomEncoders = <<customEncoderSlice[1]>>
    /\ encs[customEncoderSlice[1]].written = HeaderOf(encs[customEncoderSlice[1]])
    /\ ~NotStarted(customEncoderSlice[2])
    /\ NotStarted(customEncoderSlice[3])

\* C20: after every successful Init exactly one sink exists, the file or the
\* channel writer; the channel writer exists only when useChannel is true and
\* csv is false; and a buffered or compressing writer is only ever built on a
\* file that exists.
C20_OneSink ==
    \A n \in customEncoderNames :
        InitDone(n) =>
            LET e == encs[n]
            IN /\ (e.file # NilFile) # (e.cWriter # Nil)
               /\ (e.cWriter # Nil) = (cfg.WriteChan /\ ~cfg.CSV)
               /\ (e.bWriter # Nil \/ e.gWriter # Nil) => e.file # NilFile

C20_Witness ==
    /\ Up /\ InitDone(Active) /\ AllIdle
    /\ cfg.WriteChan /\ ~cfg.CSV
    /\ encs[Active].cWriter # Nil /\ encs[Active].file = NilFile
    /\ encs[Active].bWriter = Nil /\ encs[Active].gWriter = Nil
    /\ Count(encs[Active].chanData, "payload") = 1

====
